---- MODULE Spec2Model ----
(***************************************************************************)
(* Attachment endpoints of server/routes/api/attachments/attachments.ts:   *)
(* attachments.list, attachments.create, attachments.createFromUrl,        *)
(* attachments.delete and attachments.redirect, run by concurrent request  *)
(* handlers over one attachments table, with the UploadAttachmentFromUrl   *)
(* task as a separate worker.  A handler is cut into steps at the awaits   *)
(* whose effect other requests can observe.  The client helpers uploadFile *)
(* and uploadFileFromUrl drive these endpoints and the object storage from *)
(* a browser.                                                              *)
(***************************************************************************)
EXTENDS Integers, FiniteSets, Sequences, TLC

(* ------------------------------ bounds -------------------------------- *)

\* number of ids uuidv4() hands out in one run
MaxAttachments == 1
\* largest byte count (in abstract units) a request or a remote file declares
MaxSize == 3
\* number of instants new Date() returns in one run
MaxClock == 2

(* ------------------------- the fixed environment ---------------------- *)

\* the handlers that run concurrently, in the order requests take them
Reqs == {1, 2}
Users == {"u1", "u2", "u3"}
Docs == {"d1"}
NoDoc == "none"
NoUser == "none"
Ids == 1..MaxAttachments
Sizes == 1..MaxSize
Presets == {"avatar", "documentAttachment", "import"}
ContentTypes == {"image/png", "application/pdf"}
OctetStream == "application/octet-stream"
Urls == {"https://host/a.png", "https://host/"}

\* user.teamId
TeamOf(u) == IF u = "u3" THEN "t2" ELSE "t1"
\* user.isAdmin
IsAdmin(u) == u = "u1"

(* ---------------- policies: authorize(user, action, subject) ---------- *)

\* authorize(user, "update", document)
CanUpdateDocument(u, d) ==
    d = "d1" /\ u = "u2"

\* authorize(user, "read", document)
CanReadDocument(u, d) == d \in Docs /\ TeamOf(u) = "t1"

\* authorize(user, "createAttachment", user.team)
CanCreateAttachment(u) == u = "u1"

\* authorize(user, "delete", attachment)
CanDeleteAttachment(u, att) ==
    /\ TeamOf(u) = att.teamId
    /\ (IsAdmin(u) \/ att.userId = u)

(* ------------------------ AttachmentHelper ---------------------------- *)

\* AttachmentValidation.avatarContentTypes
AvatarContentTypes == {"image/png"}

\* AttachmentHelper.presetToMaxUploadSize(preset)
presetToMaxUploadSize(preset) ==
    CASE preset = "avatar" -> 1
      [] preset = "documentAttachment" -> 2
      [] OTHER -> 2

\* AttachmentHelper.presetToAcl(preset)
presetToAcl(preset) == IF preset = "avatar" THEN "public-read" ELSE "private"

\* AttachmentHelper.presetToExpiry(preset)
presetToExpiry(preset) == IF preset = "import" THEN "expires" ELSE "never"

\* AttachmentHelper.getKey({ acl, id, name, userId })
getKey(acl, id, name, userId) == <<acl, id, userId, name>>

\* getFileNameFromUrl(url): the last path segment, undefined when there is none
getFileNameFromUrl(url) == IF url = "https://host/a.png" THEN "a.png" ELSE ""

(* ------------------------- the Attachment model ----------------------- *)

\* an instance that was never loaded
NoAtt ==
    [id |-> 0, key |-> <<"", 0, "", "">>, acl |-> "", size |-> 0,
     contentType |-> "", expiresAt |-> "", documentId |-> NoDoc,
     teamId |-> "", userId |-> NoUser, lastAccessedAt |-> 0]

\* the attributes passed to Attachment.createWithCtx
NewAttachment(id, key, acl, size, expiresAt, contentType, documentId, u) ==
    [id |-> id, key |-> key, acl |-> acl, size |-> size,
     contentType |-> contentType, expiresAt |-> expiresAt,
     documentId |-> documentId, teamId |-> TeamOf(u), userId |-> u,
     lastAccessedAt |-> 0]

\* attachment.isPrivate
isPrivate(att) == att.acl = "private"

NoUrl == [kind |-> "none", id |-> 0, key |-> NoAtt.key]
\* attachment.url
url(att) == [kind |-> "storage", id |-> 0, key |-> att.key]
\* attachment.redirectUrl
redirectUrl(att) == [kind |-> "redirect", id |-> att.id, key |-> NoAtt.key]
\* attachment.canonicalUrl
canonicalUrl(att) == [kind |-> "canonical", id |-> 0, key |-> att.key]
\* attachment.signedUrl
signedUrl(att) == [kind |-> "signed", id |-> 0, key |-> att.key]

\* BaseStorage.defaultSignedUrlExpires
defaultSignedUrlExpires == 60
\* the max-age of a public attachment's redirect
PublicMaxAge == 604800

\* presentAttachment(attachment)
presentAttachment(att) ==
    [id |-> att.id, documentId |-> att.documentId,
     contentType |-> att.contentType, size |-> att.size,
     userId |-> att.userId, url |-> url(att)]

NoData == presentAttachment(NoAtt)

(* ------------------------------- state -------------------------------- *)

VARIABLES
    db,          \* the committed rows of the attachments table, by id
    nextId,      \* the next id uuidv4() returns
    now,         \* the clock new Date() reads
    pc,          \* where each request handler stands
    ctx,         \* ctx.input and ctx.state.auth of each request
    attachment,  \* the handler's in-memory Attachment instance
    tx,          \* the open transaction of each request
    jobs,        \* UploadAttachmentFromUrlTask jobs, by attachmentId
    issued,      \* the presigned posts FileStorage has issued
    destroyed,   \* the ids attachments.delete has destroyed
    resp,        \* the response of each request
    client,      \* the browser's call of uploadFile or uploadFileFromUrl
    xhr,         \* the XMLHttpRequest of that call
    stored       \* the keys under which the object storage holds bytes

vars == <<db, nextId, now, pc, ctx, attachment, tx, jobs, issued, destroyed, resp,
          client, xhr, stored>>

\* what the server's handlers and the task worker leave alone
clientVars == <<client, xhr, stored>>

NoCtx ==
    [op |-> "none", user |-> NoUser, preset |-> "", documentId |-> NoDoc,
     contentType |-> "", size |-> 0, name |-> "", url |-> "",
     userId |-> NoUser, id |-> 0]

NoTx == [kind |-> "none", id |-> 0]

NoJob == [state |-> "none", url |-> "", error |-> ""]

NoResp ==
    [status |-> "none", error |-> "", message |-> "", data |-> NoData,
     ids |-> {}, location |-> NoUrl, maxAge |-> 0,
     form |-> FALSE]

\* no call of the client helpers is running
NoCall ==
    [pc |-> "idle", op |-> "none", req |-> 0, preset |-> "", size |-> 0,
     posts |-> 0,
     sends |-> 0, attachment |-> NoData, form |-> FALSE, success |-> "unset",
     outcome |-> "none", error |-> "", settled |-> 0]

\* new XMLHttpRequest()
NoXhr == [readyState |-> 0, status |-> 0, events |-> <<>>]

Init ==
    /\ db = <<>>
    /\ nextId = 1
    /\ now = 1
    /\ pc = [r \in Reqs |-> "idle"]
    /\ ctx = [r \in Reqs |-> NoCtx]
    /\ attachment = [r \in Reqs |-> NoAtt]
    /\ tx = [r \in Reqs |-> NoTx]
    /\ jobs = [i \in Ids |-> NoJob]
    /\ issued = {}
    /\ destroyed = {}
    /\ resp = [r \in Reqs |-> NoResp]
    /\ client = NoCall
    /\ xhr = NoXhr
    /\ stored = {}

(* ----------------------- responses and transactions ------------------- *)

\* a thrown error becomes the response
Throw(r, error, message) ==
    resp' = [resp EXCEPT ![r] = [NoResp EXCEPT !.status = "error",
                                               !.error = error,
                                               !.message = message]]

\* the row with id i is locked FOR UPDATE by a transaction other than r's
LockedByOther(r, i) ==
    \E q \in Reqs \ {r} : tx[q].kind \in {"locked", "delete"} /\ tx[q].id = i

\* the table with one row replaced or added
Put(table, att) ==
    [i \in DOMAIN table \cup {att.id} |-> IF i = att.id THEN att ELSE table[i]]

\* the table without one row
Remove(table, i) == [j \in DOMAIN table \ {i} |-> table[j]]

\* the ambient transaction of the transaction() middleware is rolled back
Rollback(r) == tx' = [tx EXCEPT ![r] = NoTx]

\* the request has its response
Done(r) == pc' = [pc EXCEPT ![r] = "done"]

\* no response is waiting to be sent: a response is sent before anything else
\* happens (a finished handler holds no transaction and no lock, so the steps
\* of the other requests do not depend on when it is sent)
Quiet == \A q \in Reqs : pc[q] # "done"

\* request r stands at a label
At(r, label) == pc[r] = label /\ Quiet

\* a request arrives: it is served by the first handler that is free
Arrives(r) == At(r, "idle") /\ \A q \in Reqs : q < r => pc[q] # "idle"

(* --------------------------- attachments.list ------------------------- *)

\* the requested userId taken from any caller
ListUserFilter_anyCaller(u, userId) ==
    IF userId # NoUser THEN userId ELSE u

\* where.userId
ListUserFilter(u, userId) ==
    IF userId # NoUser /\ IsAdmin(u) THEN userId ELSE u

\* the where clause of Attachment.findAll
ListWhere(att, u, documentId, userId) ==
    /\ att.teamId = TeamOf(u)
    /\ att.userId = ListUserFilter(u, userId)
    /\ (documentId # NoDoc => att.documentId = documentId)

List(r) ==
    \E u \in Users, documentId \in Docs \cup {NoDoc},
       userId \in Users \cup {NoUser} :
        /\ Arrives(r)
        /\ ctx' = [ctx EXCEPT ![r] = [NoCtx EXCEPT !.op = "list", !.user = u,
                                        !.documentId = documentId,
                                        !.userId = userId]]
        /\ IF documentId # NoDoc /\ ~CanReadDocument(u, documentId)
           THEN Throw(r, "AuthorizationError", "")
           ELSE LET found == {i \in DOMAIN db :
                                ListWhere(db[i], u, documentId, userId)}
                IN resp' = [resp EXCEPT ![r] =
                       [NoResp EXCEPT !.status = "ok", !.ids = found]]
        /\ Done(r)
        /\ UNCHANGED <<db, nextId, now, attachment, tx, jobs, issued, destroyed>>

(* -------------------------- attachments.create ------------------------ *)

\* the authorization step with the document branch taken for every
\* DocumentAttachment request, with or without a documentId
CreateAuthorize_everyDocumentAttachment(u, preset, documentId, contentType) ==
    IF preset = "avatar"
    THEN IF contentType \in AvatarContentTypes THEN "" ELSE "ValidationError"
    ELSE IF preset = "documentAttachment"
    THEN IF CanUpdateDocument(u, documentId) THEN "" ELSE "AuthorizationError"
    ELSE IF CanCreateAttachment(u) THEN "" ELSE "AuthorizationError"

\* the authorization step: "" when it passes, else the error thrown
CreateAuthorize(u, preset, documentId, contentType) ==
    IF preset = "avatar"
    THEN IF contentType \in AvatarContentTypes THEN "" ELSE "ValidationError"
    ELSE IF preset = "documentAttachment" /\ documentId # NoDoc
    THEN IF CanUpdateDocument(u, documentId) THEN "" ELSE "AuthorizationError"
    ELSE IF CanCreateAttachment(u) THEN "" ELSE "AuthorizationError"

\* the limit of one preset applied to every preset
TooLarge_onePreset(size, preset) ==
    size > presetToMaxUploadSize("documentAttachment")

\* size > maxUploadSize
TooLarge(size, preset) == size > presetToMaxUploadSize(preset)

\* the request arrives; the handler runs to Attachment.createWithCtx, whose
\* insert is held by the request's transaction
CreateBegin(r) ==
    \E u \in Users, preset \in Presets, documentId \in Docs \cup {NoDoc},
       contentType \in ContentTypes, size \in Sizes :
        LET name == "f.png"
            failed == CreateAuthorize(u, preset, documentId, contentType)
            acl == presetToAcl(preset)
            key == getKey(acl, nextId, name, u)
        IN
        /\ Arrives(r)
        /\ ctx' = [ctx EXCEPT ![r] = [NoCtx EXCEPT !.op = "create", !.user = u,
                                        !.preset = preset,
                                        !.documentId = documentId,
                                        !.contentType = contentType,
                                        !.size = size, !.name = name]]
        /\ IF failed # ""
           THEN /\ Throw(r, failed, "")
                /\ Done(r)
                /\ UNCHANGED <<nextId, attachment, tx>>
           ELSE IF TooLarge(size, preset)
           THEN /\ Throw(r, "ValidationError", "too large")
                /\ Done(r)
                /\ UNCHANGED <<nextId, attachment, tx>>
           ELSE /\ nextId <= MaxAttachments
                /\ nextId' = nextId + 1
                /\ attachment' = [attachment EXCEPT ![r] =
                       NewAttachment(nextId, key, acl, size,
                                     presetToExpiry(preset), contentType,
                                     documentId, u)]
                /\ tx' = [tx EXCEPT ![r] = [kind |-> "insert", id |-> nextId]]
                /\ pc' = [pc EXCEPT ![r] = "create_presign"]
                /\ UNCHANGED resp
        /\ UNCHANGED <<db, now, jobs, issued, destroyed>>

\* the credential FileStorage.getPresignedPost(key, acl, maxUploadSize, contentType) returns
PresignedPost(att, preset) ==
    [id |-> att.id, key |-> att.key, acl |-> att.acl,
     maxSize |-> presetToMaxUploadSize(preset), contentType |-> att.contentType]

\* the redirect url kept for attachments that belong to a document
CreateUrl_withDocument(att, preset) ==
    IF preset = "documentAttachment" /\ att.documentId # NoDoc
    THEN redirectUrl(att) ELSE url(att)

\* attachment.url in the response
CreateUrl(att, preset) ==
    IF preset = "documentAttachment" THEN redirectUrl(att) ELSE url(att)

\* the insert committed on its own, whatever the handler does afterwards
CreatePresign_failureCommits(r) ==
    /\ At(r, "create_presign")
    /\ Throw(r, "StorageUnavailable", "")
    /\ db' = Put(db, attachment[r])
    /\ tx' = [tx EXCEPT ![r] = NoTx]
    /\ Done(r)
    /\ UNCHANGED <<nextId, now, ctx, attachment, jobs, issued, destroyed>>

\* await FileStorage.getPresignedPost: the storage issues the credential and the
\* handler sets ctx.body, or the storage fails and the handler throws
CreatePresign(r) ==
    /\ At(r, "create_presign")
    /\ \/ /\ issued' = issued \cup {PresignedPost(attachment[r], ctx[r].preset)}
          /\ resp' = [resp EXCEPT ![r] =
                 [NoResp EXCEPT !.status = "pending", !.form = TRUE,
                                !.data = [presentAttachment(attachment[r]) EXCEPT
                                    !.url = CreateUrl(attachment[r], ctx[r].preset)]]]
          /\ pc' = [pc EXCEPT ![r] = "create_commit"]
          /\ UNCHANGED tx
       \/ /\ Throw(r, "StorageUnavailable", "")
          /\ Rollback(r)
          /\ Done(r)
          /\ UNCHANGED issued
    /\ UNCHANGED <<db, nextId, now, ctx, attachment, jobs, destroyed>>

\* the response sent without the commit
CreateCommit_uncommitted(r) ==
    /\ At(r, "create_commit")
    /\ tx' = [tx EXCEPT ![r] = NoTx]
    /\ resp' = [resp EXCEPT ![r].status = "ok"]
    /\ Done(r)
    /\ UNCHANGED <<db, nextId, now, ctx, attachment, jobs, issued, destroyed>>

\* the handler has returned: the transaction() middleware commits and the
\* response is sent
CreateCommit(r) ==
    /\ At(r, "create_commit")
    /\ db' = Put(db, attachment[r])
    /\ tx' = [tx EXCEPT ![r] = NoTx]
    /\ resp' = [resp EXCEPT ![r].status = "ok"]
    /\ Done(r)
    /\ UNCHANGED <<nextId, now, ctx, attachment, jobs, issued, destroyed>>

(* ----------------------- attachments.createFromUrl -------------------- *)

\* the check without its !documentId half
CreateFromUrlInvalid_presetOnly(preset, documentId) ==
    preset # "documentAttachment"

\* preset !== AttachmentPreset.DocumentAttachment || !documentId
CreateFromUrlInvalid(preset, documentId) ==
    preset # "documentAttachment" \/ documentId = NoDoc

\* getFileNameFromUrl(url) ?? "file"
NameFromUrl(u) == IF getFileNameFromUrl(u) = "" THEN "file" ELSE getFileNameFromUrl(u)

\* the request arrives; the handler runs to the Attachment.createWithCtx inside
\* its own sequelize.transaction
CreateFromUrlBegin(r) ==
    \E u \in Users, target \in Urls, documentId \in Docs \cup {NoDoc},
       preset \in Presets \cup {"undefined"} :
        LET name == NameFromUrl(target)
            acl == presetToAcl(preset)
            key == getKey(acl, nextId, name, u)
        IN
        /\ Arrives(r)
        /\ ctx' = [ctx EXCEPT ![r] = [NoCtx EXCEPT !.op = "createFromUrl",
                                        !.user = u, !.preset = preset,
                                        !.documentId = documentId,
                                        !.url = target, !.name = name]]
        /\ IF CreateFromUrlInvalid(preset, documentId)
           THEN /\ Throw(r, "ValidationError",
                         "Only document attachments can be created from a URL")
                /\ Done(r)
                /\ UNCHANGED <<nextId, attachment, tx>>
           ELSE IF ~CanUpdateDocument(u, documentId)
           THEN /\ Throw(r, "AuthorizationError", "")
                /\ Done(r)
                /\ UNCHANGED <<nextId, attachment, tx>>
           ELSE /\ nextId <= MaxAttachments
                /\ nextId' = nextId + 1
                /\ attachment' = [attachment EXCEPT ![r] =
                       NewAttachment(nextId, key, acl, 0,
                                     presetToExpiry(preset), OctetStream,
                                     documentId, u)]
                /\ tx' = [tx EXCEPT ![r] = [kind |-> "insert", id |-> nextId]]
                /\ pc' = [pc EXCEPT ![r] = "cfu_commit"]
                /\ UNCHANGED resp
        /\ UNCHANGED <<db, now, jobs, issued, destroyed>>

\* the row left to a transaction that is still open when the handler goes on,
\* as it would be under the transaction() middleware
CreateFromUrlCommit_stillOpen(r) ==
    /\ At(r, "cfu_commit")
    /\ pc' = [pc EXCEPT ![r] = "cfu_schedule"]
    /\ UNCHANGED <<db, nextId, now, ctx, attachment, tx, jobs, issued, destroyed, resp>>

\* sequelize.transaction commits and its promise resolves
CreateFromUrlCommit(r) ==
    /\ At(r, "cfu_commit")
    /\ db' = Put(db, attachment[r])
    /\ tx' = [tx EXCEPT ![r] = NoTx]
    /\ pc' = [pc EXCEPT ![r] = "cfu_schedule"]
    /\ UNCHANGED <<nextId, now, ctx, attachment, jobs, issued, destroyed, resp>>

\* new UploadAttachmentFromUrlTask().schedule({ attachmentId, url })
CreateFromUrlSchedule(r) ==
    /\ At(r, "cfu_schedule")
    /\ jobs' = [jobs EXCEPT ![attachment[r].id] =
           [state |-> "queued", url |-> ctx[r].url, error |-> ""]]
    /\ pc' = [pc EXCEPT ![r] = "cfu_wait"]
    /\ UNCHANGED <<db, nextId, now, ctx, attachment, tx, issued, destroyed, resp>>

\* the task storing the file under a key computed again, from the name of the
\* fetched file
JobPerform_rekey(i) ==
    /\ Quiet
    /\ jobs[i].state = "queued"
    /\ i \in DOMAIN db
    /\ jobs' = [jobs EXCEPT ![i].state = "finished"]
    /\ db' = [db EXCEPT ![i].size = 1, ![i].contentType = "image/png",
                        ![i].key = getKey(db[i].acl, i, "fetched.png",
                                          db[i].userId)]
    /\ UNCHANGED <<nextId, now, pc, ctx, attachment, tx, issued, destroyed, resp>>

\* the worker performs the task: it fetches the url, stores the bytes and
\* updates size and contentType, or finishes with an error
JobPerform(i) ==
    /\ Quiet
    /\ jobs[i].state = "queued"
    /\ \A q \in Reqs : ~(tx[q].kind \in {"locked", "delete"} /\ tx[q].id = i)
    /\ \/ \E size \in Sizes, contentType \in ContentTypes :
             IF i \notin DOMAIN db
             THEN /\ jobs' = [jobs EXCEPT ![i].state = "finished",
                                          ![i].error = "Attachment not found"]
                  /\ UNCHANGED db
             ELSE IF size > presetToMaxUploadSize("documentAttachment")
             THEN /\ jobs' = [jobs EXCEPT ![i].state = "finished",
                                          ![i].error = "File too large"]
                  /\ UNCHANGED db
             ELSE /\ jobs' = [jobs EXCEPT ![i].state = "finished"]
                  /\ db' = [db EXCEPT ![i].size = size,
                                      ![i].contentType = contentType]
       \/ /\ jobs' = [jobs EXCEPT ![i].state = "finished",
                                  ![i].error = "Failed to fetch"]
          /\ UNCHANGED db
    /\ UNCHANGED <<nextId, now, pc, ctx, attachment, tx, issued, destroyed, resp>>

\* the error branch cleaning up the record it created
CreateFromUrlFail_cleanup(r) ==
    /\ Throw(r, "InvalidRequestError", jobs[attachment[r].id].error)
    /\ db' = Remove(db, attachment[r].id)
    /\ UNCHANGED attachment

\* "error" in response: throw InvalidRequestError(response.error)
CreateFromUrlFail(r) ==
    /\ Throw(r, "InvalidRequestError", jobs[attachment[r].id].error)
    /\ UNCHANGED <<db, attachment>>

\* the projection of the instance as it was created, without the reload
CreateFromUrlReload_stale(r) ==
    /\ resp' = [resp EXCEPT ![r] =
           [NoResp EXCEPT !.status = "ok",
                          !.data = presentAttachment(attachment[r])]]
    /\ UNCHANGED <<db, attachment>>

\* await attachment.reload(); ctx.body = { data: presentAttachment(attachment) }
CreateFromUrlReload(r) ==
    LET i == attachment[r].id IN
    IF i \in DOMAIN db
    THEN /\ attachment' = [attachment EXCEPT ![r] = db[i]]
         /\ resp' = [resp EXCEPT ![r] =
                [NoResp EXCEPT !.status = "ok", !.data = presentAttachment(db[i])]]
         /\ UNCHANGED db
    ELSE /\ Throw(r, "InstanceError", "")
         /\ UNCHANGED <<db, attachment>>

\* the wait given up with an error of the handler's own
CreateFromUrlFinished_timeout(r) ==
    /\ At(r, "cfu_wait")
    /\ Throw(r, "InvalidRequestError", "timeout")
    /\ Done(r)
    /\ UNCHANGED <<db, attachment, nextId, now, ctx, tx, jobs, issued, destroyed>>

\* await job.finished() has resolved
CreateFromUrlFinished(r) ==
    /\ At(r, "cfu_wait")
    /\ jobs[attachment[r].id].state = "finished"
    /\ IF jobs[attachment[r].id].error # ""
       THEN CreateFromUrlFail(r)
       ELSE CreateFromUrlReload(r)
    /\ Done(r)
    /\ UNCHANGED <<nextId, now, ctx, tx, jobs, issued, destroyed>>

(* -------------------------- attachments.delete ------------------------ *)

\* Attachment.findByPk(id, { rejectOnEmpty, lock: UPDATE, transaction })
DeleteBegin(r) ==
    \E u \in Users, i \in Ids :
        /\ Arrives(r)
        /\ ~LockedByOther(r, i)
        /\ ctx' = [ctx EXCEPT ![r] = [NoCtx EXCEPT !.op = "delete", !.user = u,
                                        !.id = i]]
        /\ IF i \notin DOMAIN db
           THEN /\ Throw(r, "NotFoundError", "")
                /\ Done(r)
                /\ UNCHANGED <<attachment, tx>>
           ELSE /\ attachment' = [attachment EXCEPT ![r] = db[i]]
                /\ tx' = [tx EXCEPT ![r] = [kind |-> "locked", id |-> i]]
                /\ pc' = [pc EXCEPT ![r] = "delete_authorize"]
                /\ UNCHANGED resp
        /\ UNCHANGED <<db, nextId, now, jobs, issued, destroyed>>

\* the authorization without the document check
DeleteAuthorized_attachmentOnly(u, att) == CanDeleteAttachment(u, att)

\* the two authorize calls of attachments.delete
DeleteAuthorized(u, att) ==
    /\ (att.documentId # NoDoc => CanUpdateDocument(u, att.documentId))
    /\ CanDeleteAttachment(u, att)

\* authorize, then attachment.destroyWithCtx(ctx) inside the transaction
DeleteAuthorize(r) ==
    /\ At(r, "delete_authorize")
    /\ IF DeleteAuthorized(ctx[r].user, attachment[r])
       THEN /\ tx' = [tx EXCEPT ![r].kind = "delete"]
            /\ resp' = [resp EXCEPT ![r] = [NoResp EXCEPT !.status = "pending"]]
            /\ pc' = [pc EXCEPT ![r] = "delete_commit"]
       ELSE /\ Throw(r, "AuthorizationError", "")
            /\ Rollback(r)
            /\ Done(r)
    /\ UNCHANGED <<db, nextId, now, ctx, attachment, jobs, issued, destroyed>>

\* the handler has returned: the transaction() middleware commits
DeleteCommit(r) ==
    /\ At(r, "delete_commit")
    /\ db' = Remove(db, tx[r].id)
    /\ destroyed' = destroyed \cup {tx[r].id}
    /\ tx' = [tx EXCEPT ![r] = NoTx]
    /\ resp' = [resp EXCEPT ![r].status = "ok"]
    /\ Done(r)
    /\ UNCHANGED <<nextId, now, ctx, attachment, jobs, issued>>

(* ------------------------- attachments.redirect ----------------------- *)

\* attachment.isPrivate && attachment.teamId !== user.teamId
RedirectDenied(u, att) == isPrivate(att) /\ att.teamId # TeamOf(u)

\* Attachment.findByPk(id, { rejectOnEmpty: true }) and the team check
RedirectBegin(r) ==
    \E u \in Users, i \in Ids :
        /\ Arrives(r)
        /\ ctx' = [ctx EXCEPT ![r] = [NoCtx EXCEPT !.op = "redirect", !.user = u,
                                        !.id = i]]
        /\ IF i \notin DOMAIN db
           THEN /\ Throw(r, "NotFoundError", "")
                /\ Done(r)
                /\ UNCHANGED attachment
           ELSE IF RedirectDenied(u, db[i])
           THEN /\ Throw(r, "AuthorizationError", "")
                /\ Done(r)
                /\ UNCHANGED attachment
           ELSE /\ attachment' = [attachment EXCEPT ![r] = db[i]]
                /\ pc' = [pc EXCEPT ![r] = "redirect_update"]
                /\ UNCHANGED resp
        /\ UNCHANGED <<db, nextId, now, tx, jobs, issued, destroyed>>

\* await attachment.update({ lastAccessedAt: new Date() }, { silent: true }):
\* the write waits for a row lock; it succeeds (on no row when the row is
\* gone) or it rejects, and then the handler throws.  Each new Date() reads a
\* later instant.
RedirectUpdate(r) ==
    LET i == attachment[r].id IN
    /\ At(r, "redirect_update")
    /\ ~LockedByOther(r, i)
    /\ \/ /\ now <= MaxClock
          /\ now' = now + 1
          /\ db' = IF i \in DOMAIN db
                   THEN [db EXCEPT ![i].lastAccessedAt = now]
                   ELSE db
          /\ attachment' = [attachment EXCEPT ![r].lastAccessedAt = now]
          /\ pc' = [pc EXCEPT ![r] = "redirect_respond"]
          /\ UNCHANGED resp
       \/ /\ Throw(r, "DatabaseError", "")
          /\ Done(r)
          /\ UNCHANGED <<db, attachment, now>>
    /\ UNCHANGED <<nextId, ctx, tx, jobs, issued, destroyed>>

\* ctx.set("Cache-Control", ...); ctx.redirect(...)
RedirectRespond(r) ==
    /\ At(r, "redirect_respond")
    /\ resp' = [resp EXCEPT ![r] =
           IF isPrivate(attachment[r])
           THEN [NoResp EXCEPT !.status = "redirect",
                               !.maxAge = defaultSignedUrlExpires,
                               !.location = signedUrl(attachment[r])]
           ELSE [NoResp EXCEPT !.status = "redirect",
                               !.maxAge = PublicMaxAge,
                               !.location = canonicalUrl(attachment[r])]]
    /\ Done(r)
    /\ UNCHANGED <<db, nextId, now, ctx, attachment, tx, jobs, issued, destroyed>>

(* ------------------------------ environment --------------------------- *)

\* the response is sent; the connection serves the next request
NextRequest(r) ==
    /\ pc[r] = "done"
    /\ pc' = [pc EXCEPT ![r] = "idle"]
    /\ ctx' = [ctx EXCEPT ![r] = NoCtx]
    /\ attachment' = [attachment EXCEPT ![r] = NoAtt]
    /\ resp' = [resp EXCEPT ![r] = NoResp]
    /\ UNCHANGED <<db, nextId, now, tx, jobs, issued, destroyed>>

(* --------------------- the client: uploadFile ------------------------- *)

\* the statuses with which the storage ends a transfer that got an answer
Statuses == {200, 204, 399, 400, 403, 500}

\* the presigned post of the record the client received
CredentialOf(data) == CHOOSE c \in issued : c.id = data.id

\* client.post("/attachments.create", { preset, documentId, contentType, size,
\* name }): the request arrives at the server
UploadFilePost(r) ==
    /\ client.pc = "idle"
    /\ CreateBegin(r)
    /\ client' = [NoCall EXCEPT !.pc = "create", !.op = "uploadFile",
                                !.req = r, !.preset = ctx'[r].preset,
                                !.size = ctx'[r].size,
                                !.posts = client.posts + 1]
    /\ UNCHANGED <<xhr, stored>>

\* the awaited client.post settles: response.data gives the attachment and the
\* form, or the error of the request rejects the call
UploadFileResponse(r) ==
    /\ client.pc = "create"
    /\ client.req = r
    /\ NextRequest(r)
    /\ client' =
           IF resp[r].status = "ok"
           THEN [client EXCEPT !.pc = "send", !.attachment = resp[r].data,
                               !.form = resp[r].form]
           ELSE [client EXCEPT !.pc = "settled", !.outcome = "rejected",
                               !.error = resp[r].error,
                               !.settled = client.settled + 1]
    /\ UNCHANGED <<xhr, stored>>

\* xhr.open("POST", data.uploadUrl, true); xhr.send(formData)
UploadFileSend ==
    /\ client.pc = "send"
    /\ xhr' = [xhr EXCEPT !.readyState = 1]
    /\ client' = [client EXCEPT !.pc = "transfer",
                                !.sends = client.sends + 1]
    /\ UNCHANGED <<db, nextId, now, pc, ctx, attachment, tx, jobs, issued,
                   destroyed, resp, stored>>

\* the test of the loadend listener with 400 counted as a success
Success_upTo400(x) ==
    x.readyState = 4 /\ x.status >= 200 /\ x.status <= 400

\* xhr.readyState === 4 && xhr.status >= 200 && xhr.status < 400
Success(x) ==
    x.readyState = 4 /\ x.status >= 200 /\ x.status < 400

\* the storage answers the transfer: the load listener and then the loadend
\* listener run, which resolves the promise with success.  The storage keeps
\* the bytes under the credential's key when it answers 2xx.
XhrLoad ==
    \E status \in Statuses :
        LET done == [readyState |-> 4, status |-> status,
                     events |-> <<"load", "loadend">>]
        IN
        /\ client.pc = "transfer"
        /\ xhr' = done
        /\ stored' = IF status \in 200..299
                     THEN stored \cup {CredentialOf(client.attachment).key}
                     ELSE stored
        /\ client' = [client EXCEPT !.pc = "settle",
                                    !.success = Success(done)]
        /\ UNCHANGED <<db, nextId, now, pc, ctx, attachment, tx, jobs, issued,
                       destroyed, resp>>

\* the transfer fails below HTTP: the error listener logs, and then the loadend
\* listener runs with xhr.status 0
XhrError ==
    LET done == [readyState |-> 4, status |-> 0,
                 events |-> <<"error", "loadend">>]
    IN
    /\ client.pc = "transfer"
    /\ xhr' = done
    /\ client' = [client EXCEPT !.pc = "settle", !.success = Success(done)]
    /\ UNCHANGED <<db, nextId, now, pc, ctx, attachment, tx, jobs, issued,
                   destroyed, resp, stored>>

\* a failed transfer sent again with the same credential
UploadFileSettle_retries ==
    /\ client.pc = "settle"
    /\ client' =
           IF client.success = TRUE
           THEN [client EXCEPT !.pc = "settled", !.outcome = "resolved",
                               !.settled = client.settled + 1]
           ELSE [client EXCEPT !.pc = "send", !.success = "unset"]
    /\ UNCHANGED <<db, nextId, now, pc, ctx, attachment, tx, jobs, issued,
                   destroyed, resp, xhr, stored>>

\* the await of the promise resumes: if (!success) throw new
\* Error("Upload failed"); return attachment
UploadFileSettle ==
    /\ client.pc = "settle"
    /\ client' =
           IF client.success = TRUE
           THEN [client EXCEPT !.pc = "settled", !.outcome = "resolved",
                               !.settled = client.settled + 1]
           ELSE [client EXCEPT !.pc = "settled", !.outcome = "rejected",
                               !.error = "Upload failed",
                               !.settled = client.settled + 1]
    /\ UNCHANGED <<db, nextId, now, pc, ctx, attachment, tx, jobs, issued,
                   destroyed, resp, xhr, stored>>

(* ------------------ the client: uploadFileFromUrl --------------------- *)

\* the preset in the body of client.post("/attachments.createFromUrl",
\* { documentId: options.documentId, url }): the body has no preset field
FromUrlBody(preset) == "undefined"

\* the call with its options; the request arrives at the server
UploadFileFromUrlPost(r) ==
    \E preset \in Presets :
        /\ client.pc = "idle"
        /\ CreateFromUrlBegin(r)
        /\ ctx'[r].preset = FromUrlBody(preset)
        /\ client' = [NoCall EXCEPT !.pc = "createFromUrl",
                                    !.op = "uploadFileFromUrl", !.req = r,
                                    !.preset = preset,
                                    !.posts = client.posts + 1]
        /\ UNCHANGED <<xhr, stored>>

\* the awaited client.post settles: return response.data, or the error of the
\* request rejects the call
UploadFileFromUrlResponse(r) ==
    /\ client.pc = "createFromUrl"
    /\ client.req = r
    /\ NextRequest(r)
    /\ client' =
           IF resp[r].status = "ok"
           THEN [client EXCEPT !.pc = "settled", !.outcome = "resolved",
                               !.attachment = resp[r].data,
                               !.settled = client.settled + 1]
           ELSE [client EXCEPT !.pc = "settled", !.outcome = "rejected",
                               !.error = resp[r].error,
                               !.settled = client.settled + 1]
    /\ UNCHANGED <<xhr, stored>>

\* the caller has the outcome of the call; the next call gets a new
\* XMLHttpRequest
ClientReturn ==
    /\ client.pc = "settled"
    /\ client' = NoCall
    /\ xhr' = NoXhr
    /\ UNCHANGED <<db, nextId, now, pc, ctx, attachment, tx, jobs, issued,
                   destroyed, resp, stored>>

Next ==
    \/ \E r \in Reqs : List(r) /\ UNCHANGED clientVars
    \/ \E r \in Reqs : CreateBegin(r) /\ UNCHANGED clientVars
    \/ \E r \in Reqs : CreatePresign(r) /\ UNCHANGED clientVars
    \/ \E r \in Reqs : CreateCommit(r) /\ UNCHANGED clientVars
    \/ \E r \in Reqs : CreateFromUrlBegin(r) /\ UNCHANGED clientVars
    \/ \E r \in Reqs : CreateFromUrlCommit(r) /\ UNCHANGED clientVars
    \/ \E r \in Reqs : CreateFromUrlSchedule(r) /\ UNCHANGED clientVars
    \/ \E i \in Ids : JobPerform(i) /\ UNCHANGED clientVars
    \/ \E r \in Reqs : CreateFromUrlFinished(r) /\ UNCHANGED clientVars
    \/ \E r \in Reqs : DeleteBegin(r) /\ UNCHANGED clientVars
    \/ \E r \in Reqs : DeleteAuthorize(r) /\ UNCHANGED clientVars
    \/ \E r \in Reqs : DeleteCommit(r) /\ UNCHANGED clientVars
    \/ \E r \in Reqs : RedirectBegin(r) /\ UNCHANGED clientVars
    \/ \E r \in Reqs : RedirectUpdate(r) /\ UNCHANGED clientVars
    \/ \E r \in Reqs : RedirectRespond(r) /\ UNCHANGED clientVars
    \/ \E r \in Reqs : NextRequest(r) /\ UNCHANGED clientVars

\* every endpoint, from the empty table
Spec == Init /\ [][Next]_vars

(* --------------------------- specifications --------------------------- *)

\* the direct-upload path alone: concurrent attachments.create requests
NextCreate ==
    \/ \E r \in Reqs : CreateBegin(r) /\ UNCHANGED clientVars
    \/ \E r \in Reqs : CreatePresign(r) /\ UNCHANGED clientVars
    \/ \E r \in Reqs : CreateCommit(r) /\ UNCHANGED clientVars
    \/ \E r \in Reqs : NextRequest(r) /\ UNCHANGED clientVars

SpecCreate == Init /\ [][NextCreate]_vars

\* the URL-import path: concurrent attachments.createFromUrl requests, the
\* task worker, and attachments.delete requests on the rows they create
NextFromUrl ==
    \/ \E r \in Reqs : CreateFromUrlBegin(r) /\ UNCHANGED clientVars
    \/ \E r \in Reqs : CreateFromUrlCommit(r) /\ UNCHANGED clientVars
    \/ \E r \in Reqs : CreateFromUrlSchedule(r) /\ UNCHANGED clientVars
    \/ \E i \in Ids : JobPerform(i) /\ UNCHANGED clientVars
    \/ \E r \in Reqs : CreateFromUrlFinished(r) /\ UNCHANGED clientVars
    \/ \E r \in Reqs : DeleteBegin(r) /\ UNCHANGED clientVars
    \/ \E r \in Reqs : DeleteAuthorize(r) /\ UNCHANGED clientVars
    \/ \E r \in Reqs : DeleteCommit(r) /\ UNCHANGED clientVars
    \/ \E r \in Reqs : NextRequest(r) /\ UNCHANGED clientVars

SpecFromUrl == Init /\ [][NextFromUrl]_vars

\* the scheduling of the URL-import path: a handler whose awaited
\* job.finished() has resolved is resumed, and a response that is ready is
\* sent.  Nothing makes the worker finish a job.
FairFromUrl ==
    \A r \in Reqs :
        /\ SF_vars(CreateFromUrlFinished(r) /\ UNCHANGED clientVars)
        /\ WF_vars(NextRequest(r) /\ UNCHANGED clientVars)

SpecFromUrlLive == SpecFromUrl /\ FairFromUrl

\* the body of an attachments.create request that the handler accepts
Accepted(u, preset, documentId, contentType, size) ==
    /\ CreateAuthorize(u, preset, documentId, contentType) = ""
    /\ ~TooLarge(size, preset)

\* the accepted attachments.create requests the rows of a populated table
\* come from: one content type and one size, every user, preset and document
TableInputs ==
    {in \in [user : Users, preset : Presets, documentId : Docs \cup {NoDoc}] :
        Accepted(in.user, in.preset, in.documentId, "image/png", 1)}

\* the row that attachments.create commits for such a request
TableRow(i, in) ==
    NewAttachment(i, getKey(presetToAcl(in.preset), i, "f.png", in.user),
                  presetToAcl(in.preset), 1, presetToExpiry(in.preset),
                  "image/png", in.documentId, in.user)

\* a table that completed attachments.create requests have left behind
InitTable ==
    \E n \in Ids : \E ins \in [1..n -> TableInputs] :
        /\ db = [i \in 1..n |-> TableRow(i, ins[i])]
        /\ nextId = n + 1
        /\ issued = {PresignedPost(TableRow(i, ins[i]), ins[i].preset) : i \in 1..n}
        /\ now = 1
        /\ pc = [r \in Reqs |-> "idle"]
        /\ ctx = [r \in Reqs |-> NoCtx]
        /\ attachment = [r \in Reqs |-> NoAtt]
        /\ tx = [r \in Reqs |-> NoTx]
        /\ jobs = [i \in Ids |-> NoJob]
        /\ destroyed = {}
        /\ resp = [r \in Reqs |-> NoResp]
        /\ client = NoCall
        /\ xhr = NoXhr
        /\ stored = {}

\* reads and deletes of single rows of a populated table: concurrent
\* attachments.redirect and attachments.delete requests
NextAccess ==
    \/ \E r \in Reqs : DeleteBegin(r) /\ UNCHANGED clientVars
    \/ \E r \in Reqs : DeleteAuthorize(r) /\ UNCHANGED clientVars
    \/ \E r \in Reqs : DeleteCommit(r) /\ UNCHANGED clientVars
    \/ \E r \in Reqs : RedirectBegin(r) /\ UNCHANGED clientVars
    \/ \E r \in Reqs : RedirectUpdate(r) /\ UNCHANGED clientVars
    \/ \E r \in Reqs : RedirectRespond(r) /\ UNCHANGED clientVars
    \/ \E r \in Reqs : NextRequest(r) /\ UNCHANGED clientVars

SpecAccess == InitTable /\ [][NextAccess]_vars

\* attachments.list requests over a populated table that attachments.delete
\* requests shrink
NextList ==
    \/ \E r \in Reqs : List(r) /\ UNCHANGED clientVars
    \/ \E r \in Reqs : DeleteBegin(r) /\ UNCHANGED clientVars
    \/ \E r \in Reqs : DeleteAuthorize(r) /\ UNCHANGED clientVars
    \/ \E r \in Reqs : DeleteCommit(r) /\ UNCHANGED clientVars
    \/ \E r \in Reqs : NextRequest(r) /\ UNCHANGED clientVars

SpecList == InitTable /\ [][NextList]_vars

\* the browser: calls of uploadFile and uploadFileFromUrl, one at a time, the
\* handlers their requests reach, and the object storage
NextClient ==
    \/ \E r \in Reqs : UploadFilePost(r)
    \/ \E r \in Reqs : CreatePresign(r) /\ UNCHANGED clientVars
    \/ \E r \in Reqs : CreateCommit(r) /\ UNCHANGED clientVars
    \/ \E r \in Reqs : UploadFileResponse(r)
    \/ UploadFileSend
    \/ XhrLoad
    \/ XhrError
    \/ UploadFileSettle
    \/ \E r \in Reqs : UploadFileFromUrlPost(r)
    \/ \E r \in Reqs : UploadFileFromUrlResponse(r)
    \/ ClientReturn

SpecClient == Init /\ [][NextClient]_vars

(* ------------------------------- claims ------------------------------- *)

\* request r has just been answered, and it was a request to endpoint op
Answered(r, op) == pc[r] = "done" /\ ctx[r].op = op

\* C1: when the job of an attachments.createFromUrl request finishes with an
\* error, the request fails with InvalidRequestError carrying the job's message,
\* and the record the request created is still in the table with size 0 and
\* contentType application/octet-stream, unless an attachments.delete request
\* has destroyed it: the handler neither rolls it back nor deletes it.
C1_JobErrorKeepsRecord ==
    \A r \in Reqs :
        LET i == attachment[r].id IN
        (Answered(r, "createFromUrl") /\ i # 0 /\ jobs[i].error # "") =>
            /\ resp[r].status = "error"
            /\ resp[r].error = "InvalidRequestError"
            /\ resp[r].message = jobs[i].error
            /\ i \notin destroyed =>
                   /\ i \in DOMAIN db
                   /\ db[i].size = 0
                   /\ db[i].contentType = OctetStream

\* a request answered with the job's error while its zero-byte record exists
C1_Witness ==
    \E r \in Reqs :
        /\ Answered(r, "createFromUrl")
        /\ resp[r].error = "InvalidRequestError"
        /\ resp[r].message = "File too large"
        /\ attachment[r].id \in DOMAIN db
        /\ db[attachment[r].id].size = 0

\* C2: a job is scheduled for an attachmentId only after that attachment's row
\* has been committed by the handler's own transaction: in every state with a
\* job for an id, no transaction still holds the insert of that id, and the row
\* is in the table (with size 0 and application/octet-stream as long as the job
\* is queued) unless an attachments.delete request has destroyed it since.
C2_CommittedBeforeScheduled ==
    \A i \in Ids :
        jobs[i].state # "none" =>
            /\ \A r \in Reqs : ~(tx[r].kind = "insert" /\ tx[r].id = i)
            /\ i \in DOMAIN db \/ i \in destroyed
            /\ (jobs[i].state = "queued" /\ i \in DOMAIN db) =>
                   /\ db[i].size = 0
                   /\ db[i].contentType = OctetStream

\* a job is queued and its zero-byte row is committed, the request waiting
C2_Witness ==
    \E r \in Reqs :
        /\ pc[r] = "cfu_wait"
        /\ jobs[attachment[r].id].state = "queued"
        /\ attachment[r].id \in DOMAIN db
        /\ db[attachment[r].id].size = 0

\* C3: an attachments.create request whose size exceeds
\* presetToMaxUploadSize(preset) is rejected in the step it arrives in, with
\* ValidationError when it passes the authorization step that precedes the size
\* check (with that step's error otherwise); the step writes no record and
\* issues no credential.  So every record of the direct path, committed or held
\* by a transaction, has size <= the maximum of its preset.
C3_OversizeRejected ==
    /\ [][\A r \in Reqs :
            (/\ pc[r] = "idle" /\ pc'[r] # "idle" /\ ctx'[r].op = "create"
             /\ ctx'[r].size > presetToMaxUploadSize(ctx'[r].preset)) =>
                /\ pc'[r] = "done"
                /\ resp'[r].status = "error"
                /\ CreateAuthorize(ctx'[r].user, ctx'[r].preset,
                                   ctx'[r].documentId, ctx'[r].contentType) = ""
                     => (resp'[r].error = "ValidationError"
                         /\ resp'[r].message = "too large")
                /\ resp'[r].form = FALSE
                /\ attachment'[r] = NoAtt
                /\ <<db, tx, issued, nextId>>' = <<db, tx, issued, nextId>>]_vars
    /\ [](\A r \in Reqs :
            pc[r] \in {"create_presign", "create_commit"} =>
                attachment[r].size <= presetToMaxUploadSize(ctx[r].preset))
    /\ [](\A i \in DOMAIN db : \A c \in issued :
            c.id = i => db[i].size <= c.maxSize)

\* an authorized oversize request answered with ValidationError while the table
\* holds records
C3_Witness ==
    \E r \in Reqs :
        /\ Answered(r, "create")
        /\ ctx[r].preset = "import"
        /\ ctx[r].size > presetToMaxUploadSize(ctx[r].preset)
        /\ resp[r].error = "ValidationError"
        /\ resp[r].message = "too large"
        /\ DOMAIN db # {}

\* C4: an attachments.createFromUrl request whose preset is not
\* DocumentAttachment, or that has no documentId, is rejected in the step it
\* arrives in with ValidationError; the step writes no record, opens no
\* transaction and schedules no job.
C4_InvalidFromUrlRejected ==
    [][\A r \in Reqs :
          (/\ pc[r] = "idle" /\ pc'[r] # "idle" /\ ctx'[r].op = "createFromUrl"
           /\ (ctx'[r].preset # "documentAttachment" \/ ctx'[r].documentId = NoDoc)) =>
              /\ pc'[r] = "done"
              /\ resp'[r].status = "error"
              /\ resp'[r].error = "ValidationError"
              /\ attachment'[r] = NoAtt
              /\ <<db, tx, jobs, nextId>>' = <<db, tx, jobs, nextId>>]_vars

\* a DocumentAttachment request without documentId answered with ValidationError
C4_Witness ==
    \E r \in Reqs :
        /\ Answered(r, "createFromUrl")
        /\ ctx[r].preset = "documentAttachment"
        /\ ctx[r].documentId = NoDoc
        /\ ctx[r].user = "u2"
        /\ resp[r].error = "ValidationError"

\* C5: attachments.delete on an attachment with a documentId needs update
\* permission on that document as well as delete permission on the attachment:
\* a caller without the document permission is answered AuthorizationError, its
\* transaction is rolled back and the row is in the table exactly as the
\* handler read it; a delete that succeeds had both permissions.
C5_DeleteNeedsDocumentUpdate ==
    \A r \in Reqs :
        LET att == attachment[r]
            u == ctx[r].user
        IN
        (Answered(r, "delete") /\ att.id # 0) =>
            /\ (att.documentId # NoDoc /\ ~CanUpdateDocument(u, att.documentId)) =>
                   /\ resp[r].status = "error"
                   /\ resp[r].error = "AuthorizationError"
                   /\ tx[r] = NoTx
                   /\ att.id \notin destroyed
                   /\ att.id \in DOMAIN db
                   /\ db[att.id] = att
            /\ resp[r].status = "ok" =>
                   /\ att.documentId # NoDoc => CanUpdateDocument(u, att.documentId)
                   /\ CanDeleteAttachment(u, att)

\* a caller who may delete the attachment but not update its document is
\* answered AuthorizationError, the row still there
C5_Witness ==
    \E r \in Reqs :
        /\ Answered(r, "delete")
        /\ attachment[r].documentId # NoDoc
        /\ CanDeleteAttachment(ctx[r].user, attachment[r])
        /\ ~CanUpdateDocument(ctx[r].user, attachment[r].documentId)
        /\ resp[r].error = "AuthorizationError"
        /\ attachment[r].id \in DOMAIN db

\* the row an attachments.redirect request asked for, as the table holds it
Requested(r) == db[ctx[r].id]

\* C6, its first half: a caller of another team never gets past the team check
\* of a private attachment: it is answered AuthorizationError without a
\* redirect, and the step leaves the table, lastAccessedAt included, as it was.
C6_CrossTeamDenied ==
    /\ [](\A r \in Reqs :
            (ctx[r].op = "redirect" /\ attachment[r].id # 0) =>
                ~(isPrivate(attachment[r]) /\ attachment[r].teamId # TeamOf(ctx[r].user)))
    /\ [][\A r \in Reqs :
            (/\ pc[r] = "idle" /\ pc'[r] # "idle" /\ ctx'[r].op = "redirect"
             /\ ctx'[r].id \in DOMAIN db
             /\ db[ctx'[r].id].acl = "private"
             /\ db[ctx'[r].id].teamId # TeamOf(ctx'[r].user)) =>
                /\ pc'[r] = "done"
                /\ resp'[r].error = "AuthorizationError"
                /\ resp'[r].location = NoUrl
                /\ db' = db]_vars

\* C6: attachments.redirect on a private attachment answers a caller of another
\* team with AuthorizationError and no redirect, and answers a caller of the
\* attachment's team with a redirect to the signed URL, max-age the signed-URL
\* TTL.
C6_PrivateRedirect ==
    \A r \in Reqs :
        Answered(r, "redirect") =>
            /\ (/\ attachment[r].id = 0
                /\ ctx[r].id \in DOMAIN db
                /\ isPrivate(Requested(r))
                /\ Requested(r).teamId # TeamOf(ctx[r].user)) =>
                   /\ resp[r].error = "AuthorizationError"
                   /\ resp[r].location = NoUrl
            /\ (/\ attachment[r].id # 0
                /\ isPrivate(attachment[r])
                /\ attachment[r].teamId = TeamOf(ctx[r].user)) =>
                   /\ resp[r].status = "redirect"
                   /\ resp[r].location = signedUrl(attachment[r])
                   /\ resp[r].maxAge = defaultSignedUrlExpires

\* C7: attachments.list returns only rows of the caller's team whose userId is
\* the requested userId when the caller is an admin and supplied one, and the
\* caller's own id in every other case.
C7_ListRestricted ==
    \A r \in Reqs :
        LET u == ctx[r].user
            owner == IF IsAdmin(u) /\ ctx[r].userId # NoUser
                     THEN ctx[r].userId ELSE u
        IN
        (Answered(r, "list") /\ resp[r].status = "ok") =>
            \A i \in resp[r].ids :
                /\ i \in DOMAIN db
                /\ db[i].teamId = TeamOf(u)
                /\ db[i].userId = owner

\* a non-admin caller who asked for the attachments of another user of its
\* team, who has one, is answered without that row
C7_Witness ==
    \E r \in Reqs : \E j \in DOMAIN db :
        /\ Answered(r, "list")
        /\ resp[r].status = "ok"
        /\ ~IsAdmin(ctx[r].user)
        /\ ctx[r].userId = db[j].userId
        /\ db[j].userId # ctx[r].user
        /\ db[j].teamId = TeamOf(ctx[r].user)
        /\ j \notin resp[r].ids

\* the authorization the claim C8 states, by preset
C8_Stated(c) ==
    CASE c.preset = "avatar" -> c.contentType \in AvatarContentTypes
      [] c.preset = "documentAttachment" ->
             c.documentId # NoDoc /\ CanUpdateDocument(c.user, c.documentId)
      [] OTHER -> CanCreateAttachment(c.user)

\* the authorization of attachments.create, by preset and documentId
C8_Required(c) ==
    CASE c.preset = "avatar" -> c.contentType \in AvatarContentTypes
      [] c.preset = "documentAttachment" /\ c.documentId # NoDoc ->
             CanUpdateDocument(c.user, c.documentId)
      [] OTHER -> CanCreateAttachment(c.user)

\* C8 as stated: every attachments.create request that gets past the
\* authorization step is an Avatar request with an allowed contentType, a
\* DocumentAttachment request by a caller with update permission on its target
\* document, or a request of another preset by a caller with createAttachment.
C8_AsStated ==
    \A r \in Reqs :
        (ctx[r].op = "create" /\ pc[r] \in {"create_presign", "create_commit"}) =>
            C8_Stated(ctx[r])

\* C8, amended: the document branch is taken only by a DocumentAttachment
\* request that names a documentId; a DocumentAttachment request without one
\* needs createAttachment on the team, like the other presets.  A request gets
\* past the step exactly when it has what its branch needs; one that does not
\* is rejected on arrival, nothing written and no credential issued.
C8_AuthorizationByPreset ==
    /\ [](\A r \in Reqs :
            (ctx[r].op = "create" /\ pc[r] \in {"create_presign", "create_commit"}) =>
                C8_Required(ctx[r]))
    /\ [][\A r \in Reqs :
            (pc[r] = "idle" /\ pc'[r] # "idle" /\ ctx'[r].op = "create") =>
                IF C8_Required(ctx'[r])
                THEN pc'[r] = "done" =>
                        /\ resp'[r].error = "ValidationError"
                        /\ resp'[r].message = "too large"
                ELSE /\ pc'[r] = "done"
                     /\ resp'[r].status = "error"
                     /\ resp'[r].error =
                            IF ctx'[r].preset = "avatar"
                            THEN "ValidationError" ELSE "AuthorizationError"
                     /\ resp'[r].form = FALSE
                     /\ attachment'[r] = NoAtt
                     /\ <<db, tx, issued, nextId>>' = <<db, tx, issued, nextId>>]_vars

\* a DocumentAttachment request without documentId, by a caller who has
\* createAttachment and no update permission on any document, is accepted
C8_Witness ==
    \E r \in Reqs :
        /\ pc[r] = "create_commit"
        /\ ctx[r].preset = "documentAttachment"
        /\ ctx[r].documentId = NoDoc
        /\ CanCreateAttachment(ctx[r].user)
        /\ \A d \in Docs : ~CanUpdateDocument(ctx[r].user, d)

\* C9: the write of lastAccessedAt is best-effort: an attachments.redirect
\* request that passed the team check is answered with its redirect, whether
\* the write succeeds or fails.
C9_UpdateIsBestEffort ==
    \A r \in Reqs :
        (Answered(r, "redirect") /\ attachment[r].id # 0) =>
            resp[r].status = "redirect"

\* C10 as stated: FileStorage.getPresignedPost issues a credential only for a
\* record whose transaction has committed, the row visible in the table.
C10_IssuedAfterCommit ==
    \A c \in issued : c.id \in DOMAIN db

\* C10, amended: the record is created inside the request's ambient
\* transaction and the credential is issued inside it too, before the commit:
\* while the credential is being issued and until the handler returns, the
\* insert is held by the open transaction and the row is not in the table.  The
\* transaction commits when the handler returns, and the response that carries
\* the credential is sent only then, the row visible.
C10_IssuedInsideTransaction ==
    /\ \A r \in Reqs :
           pc[r] \in {"create_presign", "create_commit"} =>
               /\ tx[r] = [kind |-> "insert", id |-> attachment[r].id]
               /\ attachment[r].id \notin DOMAIN db
               /\ (pc[r] = "create_commit") <=>
                      (PresignedPost(attachment[r], ctx[r].preset) \in issued)
    /\ \A r \in Reqs :
           (Answered(r, "create") /\ resp[r].form) =>
               /\ tx[r] = NoTx
               /\ resp[r].data.id \in DOMAIN db
               /\ PresignedPost(db[resp[r].data.id], ctx[r].preset) \in issued
    /\ \A c \in issued :
           \/ c.id \in DOMAIN db
           \/ \E r \in Reqs : pc[r] = "create_commit" /\ attachment[r].id = c.id

\* the credential of a record is issued and the record is not committed yet
C10_Witness ==
    \E r \in Reqs :
        /\ pc[r] = "create_commit"
        /\ PresignedPost(attachment[r], ctx[r].preset) \in issued
        /\ tx[r].kind = "insert"
        /\ attachment[r].id \notin DOMAIN db

\* C11: a call of uploadFile resolves, with the attachment of the
\* attachments.create response, exactly when the transfer has ended with
\* readyState 4 and a status in [200,400); when it has ended any other way, with
\* another status or with a transport error (status 0), the call rejects with
\* the error "Upload failed".  A call settles at most once, as resolved or as
\* rejected and never both, and once the transfer has ended the settling of the
\* call is the step that is pending.
C11_SettledOnceByStatus ==
    /\ client.settled <= 1
    /\ (client.outcome = "none") <=> (client.settled = 0)
    /\ client.op = "uploadFile" =>
        /\ (client.outcome = "resolved") <=>
               (/\ client.pc = "settled"
                /\ xhr.readyState = 4
                /\ xhr.status \in 200..399)
        /\ (client.pc = "settled" /\ xhr.readyState = 4
                /\ xhr.status \notin 200..399) =>
               (client.outcome = "rejected" /\ client.error = "Upload failed")
        /\ (xhr.readyState = 4 /\ client.outcome = "none") =>
               client.pc = "settle"
        /\ client.outcome = "resolved" =>
               /\ client.attachment.id \in DOMAIN db
               /\ client.attachment =
                      [presentAttachment(db[client.attachment.id]) EXCEPT
                          !.url = CreateUrl(db[client.attachment.id],
                                            client.preset)]

\* a call rejected with "Upload failed" after a transport error, settled once
C11_Witness ==
    /\ client.op = "uploadFile"
    /\ xhr.readyState = 4
    /\ xhr.status = 0
    /\ xhr.events = <<"error", "loadend">>
    /\ client.outcome = "rejected"
    /\ client.error = "Upload failed"
    /\ client.settled = 1

\* C12: an attachments.createFromUrl request whose job finished without an
\* error is answered after a reload of the row: the projection it returns is
\* that of the row in the table, with the size and contentType the job wrote
\* and never the size 0 and application/octet-stream the instance was created
\* with.  When an attachments.delete request destroyed the row before the
\* reload, the reload throws and the request returns no projection.
C12_ReloadedProjection ==
    \A r \in Reqs :
        LET i == attachment[r].id IN
        (Answered(r, "createFromUrl") /\ i # 0 /\ jobs[i].error = "") =>
            \/ /\ resp[r].status = "ok"
               /\ i \in DOMAIN db
               /\ resp[r].data = presentAttachment(db[i])
               /\ resp[r].data.size \in Sizes
               /\ resp[r].data.size <= presetToMaxUploadSize(ctx[r].preset)
               /\ resp[r].data.contentType \in ContentTypes
            \/ /\ resp[r].status = "error"
               /\ resp[r].data = NoData
               /\ i \in destroyed

\* a request answered with the size and contentType its job wrote
C12_Witness ==
    \E r \in Reqs :
        /\ Answered(r, "createFromUrl")
        /\ attachment[r].id \in Ids
        /\ jobs[attachment[r].id].state = "finished"
        /\ jobs[attachment[r].id].error = ""
        /\ resp[r].status = "ok"
        /\ resp[r].data.size = 2
        /\ resp[r].data.contentType = "application/pdf"

\* C13: an attachments.createFromUrl request that has created its record is
\* answered only after its job has finished: it has no response while it
\* commits, schedules and waits, it leaves the wait only when the job is
\* finished, so that it waits for ever when the job never finishes, and once
\* the job has finished the request is answered.
C13_BlocksOnJob ==
    /\ [](\A r \in Reqs :
            (Answered(r, "createFromUrl") /\ attachment[r].id # 0) =>
                jobs[attachment[r].id].state = "finished")
    /\ [](\A r \in Reqs :
            pc[r] \in {"cfu_commit", "cfu_schedule", "cfu_wait"} =>
                resp[r] = NoResp)
    /\ [][\A r \in Reqs :
            (pc[r] = "cfu_wait" /\ pc'[r] # "cfu_wait") =>
                jobs[attachment[r].id].state = "finished"]_vars
    /\ \A r \in Reqs :
            (pc[r] = "cfu_wait" /\ jobs[attachment[r].id].state = "finished")
                ~> (pc[r] = "done")

\* the job of a waiting request has finished and the request has no response
\* yet
C13_Witness ==
    \E r \in Reqs :
        /\ pc[r] = "cfu_wait"
        /\ jobs[attachment[r].id].state = "finished"
        /\ resp[r] = NoResp

\* C14, its first half: a record is destroyed at most once.  A step destroys
\* only a row that is in the table, under the lock of the request that read
\* it, and an attachments.delete request that arrives for a destroyed record
\* is answered NotFoundError.
C14_DestroyedOnce ==
    /\ [](\A i \in destroyed : i \notin DOMAIN db)
    /\ [][\A i \in Ids :
            (i \in destroyed' /\ i \notin destroyed) =>
                /\ i \in DOMAIN db
                /\ i \notin DOMAIN db'
                /\ \E r \in Reqs : tx[r] = [kind |-> "delete", id |-> i]]_vars
    /\ [][\A r \in Reqs :
            (/\ pc[r] = "idle" /\ pc'[r] # "idle" /\ ctx'[r].op = "delete"
             /\ ctx'[r].id \in destroyed) =>
                /\ pc'[r] = "done"
                /\ resp'[r].error = "NotFoundError"]_vars

\* C14: the lock of attachments.delete keeps deletes and redirects of one
\* attachment apart: a record is destroyed at most once, and no
\* attachments.redirect request writes lastAccessedAt for, or answers with a
\* redirect to, a record that has been destroyed.
C14_DeleteLockSerialises ==
    /\ [](\A i \in destroyed : i \notin DOMAIN db)
    /\ [][\A r \in Reqs :
            (pc[r] = "redirect_update" /\ pc'[r] = "redirect_respond") =>
                attachment[r].id \notin destroyed]_vars
    /\ [](\A r \in Reqs :
            (Answered(r, "redirect") /\ resp[r].status = "redirect") =>
                attachment[r].id \notin destroyed)

\* the names under which the handlers create records
C15_Names == {"f.png", "a.png", "file"}

\* C15: the key of every record in the table is the key computed when the
\* record was created, from its acl, id, userId and name, and it is the key of
\* the credential issued for it; no step changes the key or the acl of a record
\* that stays in the table.  A step that changes a record at all is the task
\* finishing, which changes size and contentType only, or the write of an
\* attachments.redirect request, which changes lastAccessedAt only.
C15_KeyImmutable ==
    /\ [](\A i \in DOMAIN db :
            /\ db[i].id = i
            /\ \E name \in C15_Names :
                   db[i].key = getKey(db[i].acl, i, name, db[i].userId)
            /\ \A c \in issued :
                   c.id = i => (c.key = db[i].key /\ c.acl = db[i].acl))
    /\ [][\A i \in DOMAIN db \cap DOMAIN db' :
            /\ db'[i].key = db[i].key
            /\ db'[i].acl = db[i].acl
            /\ \/ db'[i] = db[i]
               \/ /\ jobs[i].state = "queued"
                  /\ jobs'[i].state = "finished"
                  /\ db'[i] = [db[i] EXCEPT !.size = db'[i].size,
                                            !.contentType = db'[i].contentType]
               \/ /\ \E r \in Reqs :
                         /\ pc[r] = "redirect_update"
                         /\ pc'[r] = "redirect_respond"
                         /\ attachment[r].id = i
                  /\ db'[i] = [db[i] EXCEPT
                                  !.lastAccessedAt = db'[i].lastAccessedAt]]_vars

\* a record that the task has filled in and that a redirect has stamped, its
\* key the one it was created with
C15_Witness ==
    \E i \in DOMAIN db :
        /\ jobs[i].state = "finished"
        /\ db[i].size > 0
        /\ db[i].contentType # OctetStream
        /\ db[i].lastAccessedAt > 0
        /\ db[i].key = getKey("private", i, "a.png", db[i].userId)

\* C16, without the write: attachments.redirect applies no team check to a
\* public attachment, a caller of any team gets past the lookup, and every
\* redirect the handler answers with for a public attachment goes to the
\* canonical URL, never a signed one, with max-age 604800.
C16_PublicNoTeamCheck ==
    /\ [][\A r \in Reqs :
            (/\ pc[r] = "idle" /\ pc'[r] # "idle" /\ ctx'[r].op = "redirect"
             /\ ctx'[r].id \in DOMAIN db
             /\ ~isPrivate(db[ctx'[r].id])) =>
                /\ pc'[r] = "redirect_update"
                /\ attachment'[r] = db[ctx'[r].id]]_vars
    /\ [](\A r \in Reqs :
            (/\ Answered(r, "redirect") /\ attachment[r].id # 0
             /\ ~isPrivate(attachment[r]) /\ resp[r].status = "redirect") =>
                /\ resp[r].location = canonicalUrl(attachment[r])
                /\ resp[r].location # signedUrl(attachment[r])
                /\ resp[r].maxAge = 604800)

\* C16: an attachments.redirect request for a public attachment, by a caller of
\* any team, is answered with a redirect to the canonical URL with max-age
\* 604800.
C16_PublicRedirect ==
    \A r \in Reqs :
        (/\ Answered(r, "redirect") /\ attachment[r].id # 0
         /\ ~isPrivate(attachment[r])) =>
            /\ resp[r].status = "redirect"
            /\ resp[r].location = canonicalUrl(attachment[r])
            /\ resp[r].maxAge = 604800

\* C17: the url of the attachment in an attachments.create response is the
\* redirectUrl of the record when the preset is DocumentAttachment, with or
\* without a documentId, and the storage url of the record for every other
\* preset; the rest of the projection is that of the record.
C17_ExposedUrl ==
    \A r \in Reqs :
        (Answered(r, "create") /\ resp[r].status = "ok") =>
            LET att == db[resp[r].data.id] IN
            /\ resp[r].data.id \in DOMAIN db
            /\ (ctx[r].preset = "documentAttachment") <=>
                   (resp[r].data.url = redirectUrl(att))
            /\ (ctx[r].preset # "documentAttachment") <=>
                   (resp[r].data.url = url(att))
            /\ [resp[r].data EXCEPT !.url = url(att)] = presentAttachment(att)

\* a DocumentAttachment request without documentId answered with the
\* redirectUrl of its record
C17_Witness ==
    \E r \in Reqs :
        /\ Answered(r, "create")
        /\ resp[r].status = "ok"
        /\ ctx[r].preset = "documentAttachment"
        /\ ctx[r].documentId = NoDoc
        /\ resp[r].data.url = redirectUrl(attachment[r])
        /\ resp[r].data.url.kind = "redirect"

\* C18: a call of uploadFile makes at most one attachments.create request and
\* starts at most one transfer, the transfer only after the create request
\* succeeded.  A call that has settled does nothing more: when the transfer
\* failed there is no request in flight, no second credential and no delete,
\* and the record of the create request is in the table with the size the call
\* declared, while the storage holds no bytes under its key.
C18_OneAttemptNoCleanup ==
    /\ [](client.posts <= 1 /\ client.sends <= 1)
    /\ [](xhr.readyState # 0 => client.sends = 1)
    /\ [][client'.sends > client.sends =>
            /\ client.pc = "send"
            /\ client.posts = 1
            /\ client.form
            /\ client.attachment.id \in DOMAIN db]_vars
    /\ [][client.pc = "settled" =>
            /\ client' = NoCall
            /\ UNCHANGED <<db, pc, ctx, tx, issued, destroyed, stored>>]_vars
    /\ [](  (/\ client.op = "uploadFile"
             /\ client.pc = "settled"
             /\ client.error = "Upload failed") =>
                LET i == client.attachment.id IN
                /\ client.posts = 1
                /\ client.sends = 1
                /\ \A r \in Reqs : pc[r] = "idle"
                /\ i \in DOMAIN db
                /\ i \notin destroyed
                /\ db[i].size = client.size
                /\ db[i].size \in Sizes
                /\ Cardinality({c \in issued : c.id = i}) = 1
                /\ db[i].key \notin stored)

\* a call whose transfer the storage refused has settled as failed: its record
\* is in the table and nothing is stored under its key
C18_Witness ==
    /\ client.op = "uploadFile"
    /\ client.pc = "settled"
    /\ client.error = "Upload failed"
    /\ xhr.status = 403
    /\ client.attachment.id \in DOMAIN db
    /\ db[client.attachment.id].size = client.size
    /\ db[client.attachment.id].key \notin stored

\* C19: the request of a call of uploadFileFromUrl with a documentId and the
\* preset DocumentAttachment, by a user who may update the document, carries
\* the preset of the call and is not rejected by the validation "Only document
\* attachments can be created from a URL".
C19_FromUrlRequestAccepted ==
    \A r \in Reqs :
        (/\ Answered(r, "createFromUrl")
         /\ client.op = "uploadFileFromUrl"
         /\ client.req = r
         /\ client.preset = "documentAttachment"
         /\ ctx[r].documentId # NoDoc
         /\ CanUpdateDocument(ctx[r].user, ctx[r].documentId)) =>
            /\ ctx[r].preset = client.preset
            /\ resp[r].message #
                   "Only document attachments can be created from a URL"

\* C20: the record of an attachments.create request is written inside the
\* request's transaction.  When FileStorage.getPresignedPost fails the request
\* is answered with the error, its transaction is rolled back, and its record
\* never gets into the table: a record that is neither in the table nor held
\* by a transaction does not appear later.  A record enters the table only in
\* the step that answers its request with the credential, so every record in
\* the table has a credential that was issued for it.
C20_RolledBackOnFailure ==
    /\ [][\A r \in Reqs :
            (pc[r] = "create_presign" /\ pc'[r] = "done") =>
                /\ resp'[r].status = "error"
                /\ resp'[r].form = FALSE
                /\ tx'[r] = NoTx
                /\ db' = db
                /\ issued' = issued
                /\ attachment[r].id \notin DOMAIN db']_vars
    /\ [][\A i \in Ids :
            (/\ i < nextId
             /\ i \notin DOMAIN db
             /\ \A r \in Reqs : tx[r].id # i) =>
                i \notin DOMAIN db']_vars
    /\ [][\A i \in Ids :
            (i \in DOMAIN db' /\ i \notin DOMAIN db) =>
                \E r \in Reqs :
                    /\ tx[r] = [kind |-> "insert", id |-> i]
                    /\ pc'[r] = "done"
                    /\ resp'[r].status = "ok"
                    /\ resp'[r].form
                    /\ resp'[r].data.id = i]_vars
    /\ [](\A i \in DOMAIN db :
            \E c \in issued : c.id = i /\ c.key = db[i].key)
    /\ [](\A r \in Reqs :
            (Answered(r, "create") /\ resp[r].status = "error") =>
                /\ tx[r] = NoTx
                /\ attachment[r].id \notin DOMAIN db)

\* a request whose credential the storage could not issue is answered with the
\* error, its insert rolled back and its record not in the table
C20_Witness ==
    \E r \in Reqs :
        /\ Answered(r, "create")
        /\ resp[r].error = "StorageUnavailable"
        /\ attachment[r].id \in Ids
        /\ attachment[r].id \notin DOMAIN db
        /\ tx[r] = NoTx

====
